---- MODULE Spec2Model ----
(***************************************************************************)
(* A model of src/hcsr04.py: the HCSR04 ultrasonic range sensor driver.    *)
(*                                                                         *)
(* Numbers.  Python floats are modelled in fixed point.  sound_speed is    *)
(* kept in units of 10^-5 mm/us (the same number as 10^-2 m/s), a          *)
(* distance in millimetres is a whole number (distance_mm floors), and a   *)
(* value returned to the caller is a fraction [num, den], so that the      *)
(* division of distance_cm is visible in the result.                       *)
(*                                                                         *)
(* Control.  One caller, one sensor object (section 5 of the spec: no      *)
(* concurrent use).  pc is the line the interpreter is at, stack the       *)
(* driver's frames, exc the exception in flight.                           *)
(***************************************************************************)
EXTENDS Integers, Sequences, FiniteSets, TLC

(* ------------------------------------------------------------------ *)
(* Bounds and inputs                                                  *)
(* ------------------------------------------------------------------ *)

\* The number of top-level driver calls the caller makes on the object.
MaxCalls == 2

\* hcsr04.py:9
DEFAULT_TEMPERATURE == 20

\* hcsr04.py:83
MAX_RANGE_IN_CM == 500

\* hcsr04.py:87, the errno the handler compares args[0] with
ETIMEDOUT == 110

\* Air temperatures passed to the constructor (degrees Celsius).
Temperatures == {-40, -16, -15, 0, 20, 70, 71}

\* Pin identifiers passed to the constructor; the platform knows ValidPins.
\* The trigger and the echo are two lines of the sensor: two distinct pins.
PinIds == {4, 5, 99}

ValidPins == {4, 5}

\* A timeout argument: a Python value with its type.  time_pulse_us
\* converts its timeout with the platform's integer conversion, which
\* rejects a float.
IntObj(v) == [type |-> "int", v |-> v]

FloatObj(v) == [type |-> "float", v |-> v]

Timeouts == {IntObj(500 * 2 * 30), IntObj(1000), FloatObj(30000)}

\* Echo pulse widths (us) the sensor can answer with.
PulseSamples == {0, 1, 583, 1000, 30000}

\* An argument of an exception: an int or a str.
IntArg(i) == [kind |-> "int", i |-> i, s |-> ""]

StrArg(s) == [kind |-> "str", i |-> 0, s |-> s]

\* An exception object: its class, its args, and the function that made it.
Exc(type, args, origin) == [type |-> type, args |-> args, origin |-> origin]

NoExc == Exc("none", <<>>, "none")

\* What the pulse primitive can raise as an OSError.
PrimitiveOSErrors ==
    { Exc("OSError", <<IntArg(ETIMEDOUT)>>, "time_pulse_us"),
      Exc("OSError", <<IntArg(5)>>, "time_pulse_us"),
      Exc("OSError", <<IntArg(5), StrArg("EIO")>>, "time_pulse_us"),
      Exc("OSError", <<StrArg("Out of range")>>, "time_pulse_us"),
      Exc("OSError", <<>>, "time_pulse_us") }

\* A returned number, as a fraction.
Frac(n, d) == [num |-> n, den |-> d]

NoValue == Frac(0, 0)

\* What one frame yielded to its caller.
Pending == [state |-> "pending", val |-> NoValue, err |-> NoExc]

Returned(v) == [state |-> "returned", val |-> v, err |-> NoExc]

Raised(e) == [state |-> "raised", val |-> NoValue, err |-> e]

\* The functions of the driver a caller can call.
Entry == {"distance_mm", "distance_cm", "_send_pulse_and_wait"}

\* A hardware operation, as the collaborators see it.
Ev(op, pin, arg, timeout) == [op |-> op, pin |-> pin, arg |-> arg, timeout |-> timeout]

NoPin == 0 - 1

NoTimeout == [type |-> "none", v |-> 0]

VARIABLES
    args,           \* the constructor's arguments
    ctor,           \* "pending", "ok" or "raised"
    ctor_exc,       \* what the constructor raised
    self,           \* the object's fields
    pin_mode,       \* each pin's mode
    pin_value,      \* each pin's written level
    pc,             \* where the interpreter is
    stack,          \* the driver's frames, innermost last
    pulse_time,     \* the local pulse_time of _send_pulse_and_wait
    retval,         \* the value the last returning frame handed to its caller
    mm,             \* the local mm of distance_mm
    ex,             \* the caught exception of the handler at line 86
    exc,            \* the exception in flight
    outcome,        \* what each frame of the current call yielded
    primitive,      \* what time_pulse_us did in the current call
    hw,             \* the hardware operations of the current call
    calls,          \* top-level calls started
    timeout_outcomes \* how timeouts reported by the primitive ended so far

vars == <<args, ctor, ctor_exc, self, pin_mode, pin_value, pc, stack, pulse_time,
          retval, mm, ex, exc, outcome, primitive, hw, calls, timeout_outcomes>>

(* ------------------------------------------------------------------ *)
(* Pure functions                                                     *)
(* ------------------------------------------------------------------ *)

RECURSIVE IsqrtIn(_, _, _)
\* The largest r in lo..hi with r*r <= n, by bisection.
IsqrtIn(n, lo, hi) ==
    IF lo >= hi THEN lo
    ELSE LET mid == (lo + hi + 1) \div 2
         IN  IF mid * mid <= n THEN IsqrtIn(n, mid, hi) ELSE IsqrtIn(n, lo, mid - 1)

\* floor(sqrt(n)) for 0 <= n < 46340^2
Isqrt(n) == IsqrtIn(n, 0, 46339)

\* _check_air_temp without the range check
check_air_temp_unvalidated(min_working_temp, max_working_temp, temperature) ==
    temperature

\* hcsr04.py:48-56
_check_air_temp(min_working_temp, max_working_temp, temperature) ==
    IF min_working_temp <= temperature /\ temperature <= max_working_temp
    THEN temperature
    ELSE DEFAULT_TEMPERATURE

\* hcsr04.py:58-65.  20.05 * sqrt(t + 273.15) m/s, divided by 1000: mm/us.
\* In units of 10^-5 mm/us this is sqrt(20.05^2 * 10^4 * (t + 273.15))
\* = sqrt(40200.25 * (100 t + 27315)).
_get_sound_speed(air_temperature) ==
    LET x == 100 * air_temperature + 27315
    IN  Isqrt(40200 * x + x \div 4)

\* hcsr04.py:82-85
saturate(p) ==
    IF p < 0 THEN (MAX_RANGE_IN_CM * 291) \div 10 ELSE p

\* mm_of without the halving for the round trip
mm_no_halving(sound_speed, p) ==
    (sound_speed * p) \div 100000

\* hcsr04.py:102.  (sound_speed * pulse_time) // 2, sound_speed in 10^-5 mm/us.
mm_of(sound_speed, p) ==
    (sound_speed * p) \div 200000

\* cm_of rounded down to whole centimetres
cm_rounded(d) ==
    Frac(d \div 10, 1)

\* hcsr04.py:115.  distance_mm() / 10
cm_of(d) ==
    Frac(d, 10)

\* machine.time_pulse_us converts timeout_us to an integer first
TimeoutAccepted(t) == t.type = "int"

(* ------------------------------------------------------------------ *)
(* Construction                                                       *)
(* ------------------------------------------------------------------ *)

Init ==
    /\ args \in {a \in [trigger_pin : PinIds, echo_pin : PinIds,
                         echo_timeout_us : Timeouts, air_temp : Temperatures] :
                    a.trigger_pin # a.echo_pin}
    /\ ctor = "pending"
    /\ ctor_exc = NoExc
    /\ self = [f \in {} |-> 0]
    /\ pin_mode = [p \in ValidPins |-> "unset"]
    /\ pin_value \in [ValidPins -> {0, 1}]
    /\ pc = "idle"
    /\ stack = <<>>
    /\ pulse_time = 0
    /\ retval = NoValue
    /\ mm = 0
    /\ ex = NoExc
    /\ exc = NoExc
    /\ outcome = [f \in Entry |-> Pending]
    /\ primitive = Pending
    /\ hw = <<>>
    /\ calls = 0
    /\ timeout_outcomes = {}

\* hcsr04.py:30-39: the fields set before any pin is touched
FieldsBeforePins ==
    LET max_working_temp == 70
        min_working_temp == 0 - 15
        air_temperature == _check_air_temp(min_working_temp, max_working_temp, args.air_temp)
    IN  [max_working_temp |-> max_working_temp,
         min_working_temp |-> min_working_temp,
         air_temperature |-> air_temperature,
         sound_speed |-> _get_sound_speed(air_temperature),
         echo_timeout_us |-> args.echo_timeout_us]

\* hcsr04.py:22-45
Construct ==
    /\ ctor = "pending"
    /\ LET f == FieldsBeforePins
       IN  IF args.trigger_pin \notin ValidPins
           THEN \* line 41 raises
                /\ self' = f
                /\ ctor' = "raised"
                /\ ctor_exc' = Exc("ValueError", <<StrArg("invalid pin")>>, "Pin")
                /\ UNCHANGED <<pin_mode, pin_value>>
           ELSE IF args.echo_pin \notin ValidPins
           THEN \* lines 41-42 done, line 45 raises
                /\ self' = [max_working_temp |-> f.max_working_temp,
                            min_working_temp |-> f.min_working_temp,
                            air_temperature |-> f.air_temperature,
                            sound_speed |-> f.sound_speed,
                            echo_timeout_us |-> f.echo_timeout_us,
                            trigger |-> args.trigger_pin]
                /\ ctor' = "raised"
                /\ ctor_exc' = Exc("ValueError", <<StrArg("invalid pin")>>, "Pin")
                /\ pin_mode' = [pin_mode EXCEPT ![args.trigger_pin] = "OUT"]
                /\ pin_value' = [pin_value EXCEPT ![args.trigger_pin] = 0]
           ELSE /\ self' = [max_working_temp |-> f.max_working_temp,
                            min_working_temp |-> f.min_working_temp,
                            air_temperature |-> f.air_temperature,
                            sound_speed |-> f.sound_speed,
                            echo_timeout_us |-> f.echo_timeout_us,
                            trigger |-> args.trigger_pin,
                            echo |-> args.echo_pin]
                /\ ctor' = "ok"
                /\ ctor_exc' = NoExc
                /\ pin_mode' = [pin_mode EXCEPT ![args.trigger_pin] = "OUT",
                                                ![args.echo_pin] = "IN"]
                /\ pin_value' = [pin_value EXCEPT ![args.trigger_pin] = 0]
    /\ UNCHANGED <<args, pc, stack, pulse_time, retval, mm, ex, exc, outcome, primitive, hw,
                   calls, timeout_outcomes>>


(* ------------------------------------------------------------------ *)
(* Calls, returns and exceptions                                      *)
(* ------------------------------------------------------------------ *)

\* The first line of each function a caller can call.
FirstLine(f) ==
    IF f = "distance_cm" THEN "l115"
    ELSE IF f = "distance_mm" THEN "l95"
    ELSE "l72"

Top(s) == s[Len(s)]

Pop(s) == SubSeq(s, 1, Len(s) - 1)

\* Where the caller of the returning frame goes on: distance_cm after its call
\* at line 115, distance_mm after its call at line 95, or the outside caller.
ResumeLine(s) ==
    IF s = <<>> THEN "done"
    ELSE IF Top(s) = "distance_cm" THEN "l115r"
    ELSE "l95r"

\* The primitive reported a timeout: a negative return value (line 80) or an
\* OSError whose first argument is ETIMEDOUT (line 87).
TimeoutReported(p) ==
    \/ p.state = "returned" /\ p.val.num < 0
    \/ /\ p.state = "raised"
       /\ p.err.type = "OSError"
       /\ Len(p.err.args) > 0
       /\ p.err.args[1] = IntArg(ETIMEDOUT)

\* The record of how timeouts ended for the callers of distance_mm and
\* distance_cm, extended when the outermost frame f ends in state st.
NoteTimeout(f, st) ==
    IF f \in {"distance_mm", "distance_cm"} /\ Len(stack) = 1 /\ TimeoutReported(primitive)
    THEN timeout_outcomes \cup {st}
    ELSE timeout_outcomes

\* The top frame returns v to its caller.
Return(v) ==
    /\ retval' = v
    /\ outcome' = [outcome EXCEPT ![Top(stack)] = Returned(v)]
    /\ timeout_outcomes' = NoteTimeout(Top(stack), "returned")
    /\ stack' = Pop(stack)
    /\ pc' = ResumeLine(Pop(stack))

\* The caller calls one of the driver's functions on a constructed object.
Call(f) ==
    /\ ctor = "ok"
    /\ pc \in {"idle", "done"}
    /\ calls < MaxCalls
    /\ calls' = calls + 1
    /\ stack' = <<f>>
    /\ pc' = FirstLine(f)
    /\ pulse_time' = 0
    /\ retval' = NoValue
    /\ mm' = 0
    /\ ex' = NoExc
    /\ exc' = NoExc
    /\ outcome' = [g \in Entry |-> Pending]
    /\ primitive' = Pending
    /\ hw' = <<>>
    /\ UNCHANGED <<args, ctor, ctor_exc, self, pin_mode, pin_value, timeout_outcomes>>

\* hcsr04.py:115, the call self.distance_mm()
distance_cm_calls ==
    /\ pc = "l115"
    /\ stack' = Append(stack, "distance_mm")
    /\ pc' = "l95"
    /\ UNCHANGED <<args, ctor, ctor_exc, self, pin_mode, pin_value, pulse_time, retval,
                   mm, ex, exc, outcome, primitive, hw, calls, timeout_outcomes>>

\* hcsr04.py:95, the call self._send_pulse_and_wait()
distance_mm_calls ==
    /\ pc = "l95"
    /\ stack' = Append(stack, "_send_pulse_and_wait")
    /\ pc' = "l72"
    /\ UNCHANGED <<args, ctor, ctor_exc, self, pin_mode, pin_value, pulse_time, retval,
                   mm, ex, exc, outcome, primitive, hw, calls, timeout_outcomes>>

\* An exception leaves the top frame: neither distance_mm nor distance_cm has
\* a handler, and the handler of _send_pulse_and_wait has raised already.
Unwind ==
    /\ pc = "raise"
    /\ outcome' = [outcome EXCEPT ![Top(stack)] = Raised(exc)]
    /\ timeout_outcomes' = NoteTimeout(Top(stack), "raised")
    /\ stack' = Pop(stack)
    /\ pc' = IF Pop(stack) = <<>> THEN "done" ELSE "raise"
    /\ UNCHANGED <<args, ctor, ctor_exc, self, pin_mode, pin_value, pulse_time, retval,
                   mm, ex, exc, primitive, hw, calls>>

(* ------------------------------------------------------------------ *)
(* _send_pulse_and_wait, hcsr04.py:67-89                              *)
(* ------------------------------------------------------------------ *)

\* self.trigger.value(level) at line `at`, going on at line `to`
TriggerValue(at, level, to) ==
    /\ pc = at
    /\ pin_value' = [pin_value EXCEPT ![self.trigger] = level]
    /\ hw' = Append(hw, Ev("value", self.trigger, level, NoTimeout))
    /\ pc' = to
    /\ UNCHANGED <<args, ctor, ctor_exc, self, pin_mode, stack, pulse_time, retval,
                   mm, ex, exc, outcome, primitive, calls, timeout_outcomes>>

\* sleep_us(us) at line `at`, going on at line `to`
SleepUs(at, us, to) ==
    /\ pc = at
    /\ hw' = Append(hw, Ev("sleep_us", NoPin, us, NoTimeout))
    /\ pc' = to
    /\ UNCHANGED <<args, ctor, ctor_exc, self, pin_mode, pin_value, stack, pulse_time,
                   retval, mm, ex, exc, outcome, primitive, calls, timeout_outcomes>>

\* line 72
StabilizeLow == TriggerValue("l72", 0, "l73")

\* line 73
Sleep5 == SleepUs("l73", 5, "l74")

\* line 74
PulseHigh == TriggerValue("l74", 1, "l76")

\* line 76
Sleep10 == SleepUs("l76", 10, "l77")

\* PulseLow with the trigger left high (the write at line 77 writes 1)
PulseLow_left_high == TriggerValue("l77", 1, "l79")

\* line 77
PulseLow == TriggerValue("l77", 0, "l79")

\* The call at line 79, as the primitive sees it.
TimePulseUsCalled ==
    hw' = Append(hw, Ev("time_pulse_us", self.echo, 1, self.echo_timeout_us))

\* line 79: time_pulse_us returns a pulse width, or -1 or -2 on a timeout
TimePulseUsReturns ==
    /\ pc = "l79"
    /\ TimeoutAccepted(self.echo_timeout_us)
    /\ TimePulseUsCalled
    /\ \E v \in PulseSamples \cup {0 - 1, 0 - 2} :
          /\ v <= self.echo_timeout_us.v
          /\ pulse_time' = v
          /\ primitive' = Returned(Frac(v, 1))
    /\ pc' = "l82"
    /\ UNCHANGED <<args, ctor, ctor_exc, self, pin_mode, pin_value, stack, retval, mm,
                   ex, exc, outcome, calls, timeout_outcomes>>

\* line 79: time_pulse_us raises an OSError, caught at line 86
TimePulseUsRaisesOSError ==
    /\ pc = "l79"
    /\ TimeoutAccepted(self.echo_timeout_us)
    /\ TimePulseUsCalled
    /\ \E e \in PrimitiveOSErrors :
          /\ ex' = e
          /\ primitive' = Raised(e)
    /\ pc' = "l87"
    /\ UNCHANGED <<args, ctor, ctor_exc, self, pin_mode, pin_value, stack, pulse_time,
                   retval, mm, exc, outcome, calls, timeout_outcomes>>

\* line 79: time_pulse_us cannot convert the timeout and raises TypeError,
\* which the handler at line 86 does not catch
TimePulseUsRejectsTimeout ==
    /\ pc = "l79"
    /\ ~TimeoutAccepted(self.echo_timeout_us)
    /\ TimePulseUsCalled
    /\ LET e == Exc("TypeError", <<StrArg("can't convert to int")>>, "time_pulse_us")
       IN  /\ exc' = e
           /\ primitive' = Raised(e)
    /\ pc' = "raise"
    /\ UNCHANGED <<args, ctor, ctor_exc, self, pin_mode, pin_value, stack, pulse_time,
                   retval, mm, ex, outcome, calls, timeout_outcomes>>

\* ReturnPulseTime with one retry of the cycle after a timeout sentinel
ReturnPulseTime_retrying ==
    /\ pc = "l82"
    /\ IF pulse_time < 0 /\ Len(hw) <= 6
       THEN /\ pc' = "l72"
            /\ UNCHANGED <<pulse_time, retval, outcome, timeout_outcomes, stack>>
       ELSE /\ pulse_time' = saturate(pulse_time)
            /\ Return(Frac(saturate(pulse_time), 1))
    /\ UNCHANGED <<args, ctor, ctor_exc, self, pin_mode, pin_value, mm, ex, exc,
                   primitive, hw, calls>>

\* lines 82-85
ReturnPulseTime ==
    /\ pc = "l82"
    /\ pulse_time' = saturate(pulse_time)
    /\ Return(Frac(saturate(pulse_time), 1))
    /\ UNCHANGED <<args, ctor, ctor_exc, self, pin_mode, pin_value, mm, ex, exc,
                   primitive, hw, calls>>

\* lines 87-89: what the handler raises for the caught ex.  ex.args[0] of an
\* empty args raises IndexError.
Reraised(e) ==
    IF Len(e.args) = 0
    THEN Exc("IndexError", <<StrArg("tuple index out of range")>>, "_send_pulse_and_wait")
    ELSE IF e.args[1] = IntArg(ETIMEDOUT)
    THEN Exc("OSError", <<StrArg("Out of range")>>, "_send_pulse_and_wait")
    ELSE e

\* lines 86-89
HandleOSError ==
    /\ pc = "l87"
    /\ exc' = Reraised(ex)
    /\ pc' = "raise"
    /\ UNCHANGED <<args, ctor, ctor_exc, self, pin_mode, pin_value, stack, pulse_time,
                   retval, mm, ex, outcome, primitive, hw, calls, timeout_outcomes>>

(* ------------------------------------------------------------------ *)
(* distance_mm, hcsr04.py:91-103, and distance_cm, hcsr04.py:105-115  *)
(* ------------------------------------------------------------------ *)

\* distance_mm_returns with the result also stored over self.sound_speed
distance_mm_returns_storing ==
    /\ pc = "l95r"
    /\ mm' = mm_of(self.sound_speed, retval.num)
    /\ self' = [self EXCEPT !.sound_speed = mm_of(self.sound_speed, retval.num)]
    /\ Return(Frac(mm_of(self.sound_speed, retval.num), 1))
    /\ UNCHANGED <<args, ctor, ctor_exc, pin_mode, pin_value, pulse_time, ex, exc,
                   primitive, hw, calls>>

\* lines 95-103, after _send_pulse_and_wait has returned
distance_mm_returns ==
    /\ pc = "l95r"
    /\ mm' = mm_of(self.sound_speed, retval.num)
    /\ Return(Frac(mm_of(self.sound_speed, retval.num), 1))
    /\ UNCHANGED <<args, ctor, ctor_exc, self, pin_mode, pin_value, pulse_time, ex, exc,
                   primitive, hw, calls>>

\* line 115, after distance_mm has returned
distance_cm_returns ==
    /\ pc = "l115r"
    /\ Return(cm_of(retval.num))
    /\ UNCHANGED <<args, ctor, ctor_exc, self, pin_mode, pin_value, pulse_time, mm, ex,
                   exc, primitive, hw, calls>>

Next ==
    \/ Construct
    \/ \E f \in Entry : Call(f)
    \/ distance_cm_calls
    \/ distance_mm_calls
    \/ StabilizeLow
    \/ Sleep5
    \/ PulseHigh
    \/ Sleep10
    \/ PulseLow
    \/ TimePulseUsReturns
    \/ TimePulseUsRaisesOSError
    \/ TimePulseUsRejectsTimeout
    \/ ReturnPulseTime
    \/ HandleOSError
    \/ Unwind
    \/ distance_mm_returns
    \/ distance_cm_returns

Spec == Init /\ [][Next]_vars

\* The steps of a call in progress: the interpreter runs them one after the
\* other, and sleep_us and time_pulse_us (bounded by its timeout) come back.
Step ==
    \/ distance_cm_calls
    \/ distance_mm_calls
    \/ StabilizeLow
    \/ Sleep5
    \/ PulseHigh
    \/ Sleep10
    \/ PulseLow
    \/ TimePulseUsReturns
    \/ TimePulseUsRaisesOSError
    \/ TimePulseUsRejectsTimeout
    \/ ReturnPulseTime
    \/ HandleOSError
    \/ Unwind
    \/ distance_mm_returns
    \/ distance_cm_returns

LiveSpec == Init /\ [][Next]_vars /\ WF_vars(Step)

(* ------------------------------------------------------------------ *)
(* Properties                                                         *)
(* ------------------------------------------------------------------ *)

\* Frame f of the current call has ended.
Ran(f) == outcome[f].state # "pending"

\* The function the caller called.
Outermost ==
    IF Ran("distance_cm") THEN "distance_cm"
    ELSE IF Ran("distance_mm") THEN "distance_mm"
    ELSE "_send_pulse_and_wait"

\* r is 20.05 * sqrt(t + 273.15) / 1000 mm/us, in units of 10^-5 mm/us,
\* rounded down: r^2 <= 40200.25 * (100 t + 27315) < (r + 1)^2.
IsSpeedOf(r, t) ==
    LET n == 40200 * (100 * t + 27315) + (100 * t + 27315) \div 4
    IN  r >= 0 /\ r * r <= n /\ n < (r + 1) * (r + 1)

\* The hardware operations of one measurement cycle, in order.
CycleOps ==
    << Ev("value", self.trigger, 0, NoTimeout),
       Ev("sleep_us", NoPin, 5, NoTimeout),
       Ev("value", self.trigger, 1, NoTimeout),
       Ev("sleep_us", NoPin, 10, NoTimeout),
       Ev("value", self.trigger, 0, NoTimeout),
       Ev("time_pulse_us", self.echo, 1, self.echo_timeout_us) >>

\* How many of the current call's hardware operations are measurements.
Measurements == Cardinality({i \in 1..Len(hw) : hw[i].op = "time_pulse_us"})

\* How many times the current call drove the trigger high.
TriggerPulses == Cardinality({i \in 1..Len(hw) : hw[i].op = "value" /\ hw[i].arg = 1})

\* The pulse duration _send_pulse_and_wait handed to distance_mm.
YieldedPulse == outcome["_send_pulse_and_wait"].val.num

\* C1: when time_pulse_us returns a negative timeout sentinel, distance_mm and
\* distance_cm do not raise, return a positive reading, and at 20 C that
\* reading is the saturated maximum range, between 400 and 460 cm.
C1_SentinelGivesMaxRange ==
    (pc = "done" /\ primitive.state = "returned" /\ primitive.val.num < 0) =>
        /\ \A f \in {"distance_mm", "distance_cm"} :
              Ran(f) => outcome[f].state = "returned" /\ outcome[f].val.num > 0
        /\ self.air_temperature = 20 =>
              /\ Ran("distance_mm") =>
                    /\ 4000 * outcome["distance_mm"].val.den <= outcome["distance_mm"].val.num
                    /\ outcome["distance_mm"].val.num <= 4600 * outcome["distance_mm"].val.den
              /\ Ran("distance_cm") =>
                    /\ 400 * outcome["distance_cm"].val.den <= outcome["distance_cm"].val.num
                    /\ outcome["distance_cm"].val.num <= 460 * outcome["distance_cm"].val.den

\* C2: every timeout the primitive reports (-1, -2 or OSError(110)) ends the
\* same way for the callers of distance_mm and distance_cm: all readings or
\* all errors, never both.
C2_OneTimeoutPolicy ==
    Cardinality(timeout_outcomes) <= 1

\* C3: an OSError of the primitive that is not a timeout (first argument not
\* 110, or no arguments at all) reaches the caller of every frame as that
\* same error.
C3_OtherErrorsUnchanged ==
    (/\ pc = "done"
     /\ primitive.state = "raised"
     /\ primitive.err.type = "OSError"
     /\ ~TimeoutReported(primitive)) =>
        \A f \in Entry : Ran(f) => outcome[f] = Raised(primitive.err)

\* C4: the stored air temperature is the argument when -15 <= t <= 70 and 20
\* otherwise, sound_speed is the speed at the stored temperature, and the
\* constructor fails only on a pin the platform rejects.
C4_TemperatureValidated ==
    ctor # "pending" =>
        /\ self.air_temperature =
              IF 0 - 15 <= args.air_temp /\ args.air_temp <= 70 THEN args.air_temp ELSE 20
        /\ 0 - 15 <= self.air_temperature /\ self.air_temperature <= 70
        /\ IsSpeedOf(self.sound_speed, self.air_temperature)
        /\ ctor = "raised" =>
              /\ ctor_exc.origin = "Pin"
              /\ args.trigger_pin \notin ValidPins \/ args.echo_pin \notin ValidPins
        /\ (args.trigger_pin \in ValidPins /\ args.echo_pin \in ValidPins) => ctor = "ok"

\* C4's case: an out-of-range temperature was replaced by the default.
C4_Witness ==
    /\ ctor = "ok"
    /\ args.air_temp = 71
    /\ self.air_temperature = 20
    /\ self.sound_speed = 34328

\* C5: a cycle's hardware operations are, in this order, trigger low, 5 us,
\* trigger high, 10 us, trigger low, then the measurement of the echo line at
\* level 1 with the configured timeout; the trigger is high only between the
\* write at line 74 and the write at line 77, so it is low during the
\* measurement and when the operation returns or raises.
C5_PulseProtocol ==
    ctor = "ok" =>
        /\ Len(hw) <= Len(CycleOps)
        /\ hw = SubSeq(CycleOps, 1, Len(hw))
        /\ pc = "l79" => Len(hw) = 5
        /\ pc \in {"l82", "l87", "l95r", "l115r", "raise", "done"} => hw = CycleOps
        /\ pin_value[self.trigger] = (IF pc \in {"l76", "l77"} THEN 1 ELSE 0)

\* C5's case: a cycle has run to its end and raised.
C5_Witness ==
    /\ pc = "done"
    /\ hw = CycleOps
    /\ outcome["_send_pulse_and_wait"].state = "raised"
    /\ pin_value[self.trigger] = 0

\* C6 as stated: distance_mm returns exactly (sound_speed * p) / 2, which is
\* non-negative; at 20 C, 1000 us gives about 171.5 mm and 583 us gives
\* 100 mm within 1 mm.
C6_ExactHalf ==
    (Ran("distance_mm") /\ outcome["distance_mm"].state = "returned") =>
        LET d == outcome["distance_mm"].val.num
        IN  /\ outcome["distance_mm"].val.den = 1
            /\ d >= 0
            /\ d * 200000 = self.sound_speed * YieldedPulse
            /\ (self.air_temperature = 20 /\ YieldedPulse = 1000) => (341 <= 2 * d /\ 2 * d <= 345)
            /\ (self.air_temperature = 20 /\ YieldedPulse = 583) => (99 <= d /\ d <= 101)

\* C6 amended: distance_mm returns (sound_speed * p) / 2 rounded down to a
\* whole number of millimetres (less than 1 mm below it), which is
\* non-negative; at 20 C, 1000 us gives 171 mm and 583 us gives 100 mm.
C6_FlooredHalf ==
    (Ran("distance_mm") /\ outcome["distance_mm"].state = "returned") =>
        LET d == outcome["distance_mm"].val.num
        IN  /\ outcome["distance_mm"].val.den = 1
            /\ d >= 0
            /\ d * 200000 <= self.sound_speed * YieldedPulse
            /\ self.sound_speed * YieldedPulse < (d + 1) * 200000
            /\ (self.air_temperature = 20 /\ YieldedPulse = 1000) => d = 171
            /\ (self.air_temperature = 20 /\ YieldedPulse = 583) => d = 100

\* C6's case: a 1000 us pulse at 20 C, measured as 171 mm.
C6_Witness ==
    /\ pc = "done"
    /\ self.air_temperature = 20
    /\ outcome["_send_pulse_and_wait"] = Returned(Frac(1000, 1))
    /\ outcome["distance_mm"] = Returned(Frac(171, 1))

\* C7: after a successful construction the first measurement does not fail
\* because of the configured timeout: a timeout the platform rejects has
\* failed the constructor already.
C7_RejectedTimeoutFailsConstruction ==
    (ctor = "ok" /\ calls = 1 /\ pc = "done") =>
        ~(/\ outcome[Outermost].state = "raised"
          /\ ~TimeoutAccepted(self.echo_timeout_us)
          /\ outcome[Outermost].err.origin = "time_pulse_us")

\* C8: once the object is constructed no step changes its fields
\* (sound_speed, air_temperature, echo_timeout_us, the working-temperature
\* bounds, the trigger and echo handles), and sound_speed stays the speed at
\* the validated temperature.
C8_FieldsImmutable ==
    /\ [][ctor = "ok" => self' = self]_vars
    /\ [](ctor = "ok" =>
            /\ IsSpeedOf(self.sound_speed, self.air_temperature)
            /\ self.air_temperature =
                  IF 0 - 15 <= args.air_temp /\ args.air_temp <= 70 THEN args.air_temp ELSE 20
            /\ self.echo_timeout_us = args.echo_timeout_us
            /\ self.min_working_temp = 0 - 15
            /\ self.max_working_temp = 70
            /\ self.trigger = args.trigger_pin
            /\ self.echo = args.echo_pin)

\* C8's case: two calls have ended, one of them by raising.
C8_Witness ==
    /\ calls = 2
    /\ pc = "done"
    /\ outcome["distance_mm"].state = "raised"
    /\ "returned" \in timeout_outcomes
    /\ IsSpeedOf(self.sound_speed, self.air_temperature)

\* What C9 says of every state: a call never makes a second trigger pulse or
\* a second measurement, and has made exactly one of each when it ends, with
\* a reading or an error.
C9_OneCycle ==
    /\ Measurements <= 1
    /\ TriggerPulses <= 1
    /\ pc = "done" =>
          /\ Measurements = 1
          /\ TriggerPulses = 1
          /\ stack = <<>>
          /\ outcome[Outermost].state \in {"returned", "raised"}

\* C9: each call of distance_mm, distance_cm or _send_pulse_and_wait makes
\* exactly one trigger pulse and one measurement and then ends with a
\* reading or an error; nothing is retried.
C9_OneCycleThenEnds ==
    /\ []C9_OneCycle
    /\ (pc \notin {"idle", "done"}) ~> (pc = "done")

\* C9's case: distance_cm ended after a timeout sentinel, with one cycle.
C9_Witness ==
    /\ pc = "done"
    /\ Ran("distance_cm")
    /\ primitive = Returned(Frac(0 - 2, 1))
    /\ Measurements = 1
    /\ TriggerPulses = 1

\* C10: distance_cm ends as the distance_mm it calls ends: with the same
\* error, or with exactly that distance_mm value divided by 10.
C10_CmIsMmOverTen ==
    Ran("distance_cm") =>
        LET c == outcome["distance_cm"]
            m == outcome["distance_mm"]
        IN  /\ c.state = m.state
            /\ c.state = "raised" => c.err = m.err
            /\ c.state = "returned" =>
                  /\ c.val.den > 0
                  /\ c.val.num * m.val.den * 10 = m.val.num * c.val.den

\* C10's case: 171 mm returned as 17.1 cm.
C10_Witness ==
    /\ pc = "done"
    /\ outcome["distance_mm"] = Returned(Frac(171, 1))
    /\ outcome["distance_cm"].state = "returned"
    /\ outcome["distance_cm"].val.num * 10 = 171 * outcome["distance_cm"].val.den

====
